---- MODULE Spec2Model ----
(***************************************************************************)
(* A model of the contact directory of src/main.py: the validated fields   *)
(* (Name, Phone, Birthday), Record, AddressBook, the pickle persistence    *)
(* and the command loop of main().                                         *)
(*                                                                         *)
(* Text that the program inspects character by character (phones and      *)
(* birthdays) is a sequence of one-character strings; names, of which the  *)
(* program reads only the length, are strings.  A message is a sequence of *)
(* its literal and interpolated parts.                                     *)
(***************************************************************************)
EXTENDS Integers, Sequences, FiniteSets, TLC

VARIABLES
    data,     \* AddressBook.data: the Records in insertion order
    file,     \* addressbook.pkl: Absent, or the pickled bytes
    status,   \* the process: "stopped", "running", "done", "crashed"
    steps,    \* input lines consumed so far
    out,      \* what the last operation returned or printed
    rec,      \* a Record held directly by a caller
    call,     \* the operation a caller invoked last, with its arguments
    text,     \* a raw string handed to Phone(...)
    today     \* datetime.today().date()

vars == <<data, file, status, steps, out, rec, call, text, today>>

(***************************************************************************)
(* Values returned or printed.                                             *)
(***************************************************************************)
NoOutput == [kind |-> "none", val |-> <<>>]
Str(parts) == [kind |-> "str", val |-> parts]
Raised(exc, parts) == [kind |-> exc, val |-> parts]
RecordRef(name) == [kind |-> "Record", val |-> <<name>>]
ListOf(entries) == [kind |-> "list", val |-> entries]

\* input_error: a ValueError raised by the wrapped function becomes the
\* returned string "Error: <message>"; anything else passes through.
ErrorPrefix == "Error: "
input_error(res) ==
    IF res.kind = "ValueError" THEN Str(<<ErrorPrefix>> \o res.val) ELSE res

IsErrorText(o) == o.kind = "str" /\ Len(o.val) > 0 /\ o.val[1] = ErrorPrefix

(***************************************************************************)
(* Name                                                                    *)
(***************************************************************************)
NameTooShortMsg == <<"Name should contain at least 2 characters">>
NameOk(name) == ~(Len(name) < 2)

(***************************************************************************)
(* Phone: re.fullmatch of                                                  *)
(*   ^\+?\d{1,3}?[-.\s]?(\(\d{1,4}\)|\d{1,4})[-.\s]?\d{1,4}[-.\s]?\d{1,9}$ *)
(* matched piece by piece from position p (the characters consumed so      *)
(* far), trying every length a piece may take, as the backtracking matcher *)
(* does.                                                                   *)
(***************************************************************************)
DigitSeq == <<"0", "1", "2", "3", "4", "5", "6", "7", "8", "9">>
Digit == {DigitSeq[i] : i \in 1..Len(DigitSeq)}
DigitVal(c) == (CHOOSE i \in 1..Len(DigitSeq) : DigitSeq[i] = c) - 1

\* \s of a str pattern (the ASCII members)
Whitespace == {" ", "\t", "\n", "\r", "\f"}
\* [-.\s]
SepClass == {"-", "."} \cup Whitespace

AllDigits(s, a, b) == \A k \in a..b : s[k] \in Digit

\* n digits follow position p
DigitsAt(s, p, n) == p + n <= Len(s) /\ AllDigits(s, p + 1, p + n)

\* n (0 or 1) characters of class C follow position p
OptAt(s, p, n, C) == n = 0 \/ (p < Len(s) /\ s[p + 1] \in C)

\* \d{1,9}$
MatchLast(s, p) == \E n \in 1..9 : DigitsAt(s, p, n) /\ p + n = Len(s)

\* [-.\s]?
MatchSep3(s, p) == \E n \in 0..1 : OptAt(s, p, n, SepClass) /\ MatchLast(s, p + n)

\* \d{1,4}
MatchGroup(s, p) == \E n \in 1..4 : DigitsAt(s, p, n) /\ MatchSep3(s, p + n)

\* [-.\s]?
MatchSep2(s, p) == \E n \in 0..1 : OptAt(s, p, n, SepClass) /\ MatchGroup(s, p + n)

\* (\(\d{1,4}\)|\d{1,4})
MatchArea(s, p) ==
    \E n \in 1..4 :
        \/ /\ p + n + 2 <= Len(s)
           /\ s[p + 1] = "("
           /\ AllDigits(s, p + 2, p + n + 1)
           /\ s[p + n + 2] = ")"
           /\ MatchSep2(s, p + n + 2)
        \/ DigitsAt(s, p, n) /\ MatchSep2(s, p + n)

\* [-.\s]?
MatchSep1(s, p) == \E n \in 0..1 : OptAt(s, p, n, SepClass) /\ MatchArea(s, p + n)

\* \d{1,3}? is a lazy repetition of one to three digits: at least one digit
MatchCountry(s, p) == \E n \in 1..3 : DigitsAt(s, p, n) /\ MatchSep1(s, p + n)

\* ^\+?
MatchPlus(s) == \E n \in 0..1 : OptAt(s, 0, n, {"+"}) /\ MatchCountry(s, n)

is_valid_phone(phone) == MatchPlus(phone)

validate_phone_error_msg ==
    <<"The phone should optionally contain country code (1-3 digits with/withount +) ",
      "and mandatory contain a regional code (1-4 digits with/without brackets()) followed by up to 9 digits. ",
      "Allowed separators are ' ', '-', '.'">>

\* Phone(phone): the value, or ValueError
PhoneNew(phone) ==
    IF ~is_valid_phone(phone)
    THEN Raised("ValueError", validate_phone_error_msg)
    ELSE [kind |-> "Phone", val |-> phone]

(***************************************************************************)
(* Calendar dates, as datetime.date computes them (proleptic Gregorian).   *)
(***************************************************************************)
Date(y, m, d) == [year |-> y, month |-> m, day |-> d]

IsLeap(y) == y % 4 = 0 /\ (y % 100 # 0 \/ y % 400 = 0)

DaysInMonth(y, m) ==
    IF m = 2 THEN (IF IsLeap(y) THEN 29 ELSE 28)
    ELSE IF m \in {4, 6, 9, 11} THEN 30 ELSE 31

DaysBeforeYear(y) ==
    LET p == y - 1 IN p * 365 + (p \div 4) - (p \div 100) + (p \div 400)

DaysBeforeMonthTable == <<0, 31, 59, 90, 120, 151, 181, 212, 243, 273, 304, 334>>
DaysBeforeMonth(y, m) ==
    DaysBeforeMonthTable[m] + (IF m > 2 /\ IsLeap(y) THEN 1 ELSE 0)

toordinal(d) == DaysBeforeYear(d.year) + DaysBeforeMonth(d.year, d.month) + d.day

fromordinal(n) ==
    LET y == CHOOSE yy \in (n \div 366)..((n \div 365) + 1) :
                 DaysBeforeYear(yy) < n /\ n <= DaysBeforeYear(yy + 1)
        r == n - DaysBeforeYear(y)
        m == CHOOSE mm \in 1..12 :
                 DaysBeforeMonth(y, mm) < r
                 /\ r <= DaysBeforeMonth(y, mm) + DaysInMonth(y, mm)
    IN  Date(y, m, r - DaysBeforeMonth(y, m))

\* date.weekday(): Monday is 0, Sunday is 6
weekday(d) == (toordinal(d) + 6) % 7

\* date + timedelta(days=k)
plus_days(d, k) == fromordinal(toordinal(d) + k)

DateLess(a, b) == toordinal(a) < toordinal(b)
DateLeq(a, b) == toordinal(a) <= toordinal(b)

DayOutOfRangeMsg == <<"day is out of range for month">>

\* date.replace(year=y): ValueError when the day does not exist in year y
replace_year(d, y) ==
    IF d.day > DaysInMonth(y, d.month)
    THEN Raised("ValueError", DayOutOfRangeMsg)
    ELSE [kind |-> "date", val |-> <<Date(y, d.month, d.day)>>]

\* strftime("%d.%m.%Y")
TwoDigits(n) == <<DigitSeq[(n \div 10) + 1], DigitSeq[(n % 10) + 1]>>
strftime(d) ==
    TwoDigits(d.day) \o <<".">> \o TwoDigits(d.month) \o <<".">>
    \o TwoDigits(d.year \div 100) \o TwoDigits(d.year % 100)

(***************************************************************************)
(* Birthday: datetime.strptime(value, "%d.%m.%Y").  %d is one of           *)
(* 3[0-1] | [1-2]\d | 0[1-9] | [1-9] | " "[1-9], %m one of                 *)
(* 1[0-2] | 0[1-9] | [1-9], %Y four digits; nothing may follow.            *)
(***************************************************************************)
NonZeroDigit == Digit \ {"0"}

DayToken(t) ==
    \/ Len(t) = 1 /\ t[1] \in NonZeroDigit
    \/ Len(t) = 2 /\ \/ t[1] = "3" /\ t[2] \in {"0", "1"}
                     \/ t[1] \in {"1", "2"} /\ t[2] \in Digit
                     \/ t[1] \in {"0", " "} /\ t[2] \in NonZeroDigit

MonthToken(t) ==
    \/ Len(t) = 1 /\ t[1] \in NonZeroDigit
    \/ Len(t) = 2 /\ \/ t[1] = "1" /\ t[2] \in {"0", "1", "2"}
                     \/ t[1] = "0" /\ t[2] \in NonZeroDigit

RECURSIVE IntOf(_)
IntOf(t) ==
    IF t = <<>> THEN 0
    ELSE IF t[Len(t)] = " " THEN 0
    ELSE IntOf(SubSeq(t, 1, Len(t) - 1)) * 10 + DigitVal(t[Len(t)])

\* the (day length, month length) splits of s that the format matches
StrptimeSplits(s) ==
    {sp \in {1, 2} \X {1, 2} :
        /\ Len(s) = sp[1] + sp[2] + 6
        /\ DayToken(SubSeq(s, 1, sp[1]))
        /\ s[sp[1] + 1] = "."
        /\ MonthToken(SubSeq(s, sp[1] + 2, sp[1] + 1 + sp[2]))
        /\ s[sp[1] + sp[2] + 2] = "."
        /\ AllDigits(s, sp[1] + sp[2] + 3, sp[1] + sp[2] + 6)}

\* parse_date: the date, or None (<<>>) when strptime raises
parse_date(s) ==
    IF StrptimeSplits(s) = {} THEN <<>>
    ELSE LET sp == CHOOSE x \in StrptimeSplits(s) : TRUE
             d == IntOf(SubSeq(s, 1, sp[1]))
             m == IntOf(SubSeq(s, sp[1] + 2, sp[1] + 1 + sp[2]))
             y == IntOf(SubSeq(s, sp[1] + sp[2] + 3, sp[1] + sp[2] + 6))
         IN  IF y < 1 \/ d > DaysInMonth(y, m) THEN <<>> ELSE <<Date(y, m, d)>>

InvalidDateMsg == <<"Invalid date format. Use DD.MM.YYYY">>

\* Birthday(value): the value as given, or ValueError
BirthdayNew(value) ==
    IF parse_date(value) = <<>>
    THEN Raised("ValueError", InvalidDateMsg)
    ELSE [kind |-> "Birthday", val |-> value]

(***************************************************************************)
(* Record.  phones is the list of Phone values; birthday is <<>> for None  *)
(* and <<value>> once set.  Each method gives the Record afterwards and    *)
(* the value returned (or the exception raised).                           *)
(***************************************************************************)
Effect(r, ret) == [rec |-> r, ret |-> ret]

\* Record(name)
RecordNew(name) ==
    IF ~NameOk(name)
    THEN Effect(<<>>, Raised("ValueError", NameTooShortMsg))
    ELSE Effect(<<[name |-> name, phones |-> <<>>, birthday |-> <<>>]>>,
                [kind |-> "None", val |-> <<>>])

add_phone(r, phone) ==
    LET p == PhoneNew(phone)
    IN  IF p.kind = "ValueError" THEN Effect(r, p)
        ELSE Effect([r EXCEPT !.phones = Append(@, p.val)],
                    [kind |-> "None", val |-> <<>>])

\* find_phone: the position of the first phone with that value, 0 for None
find_phone(r, phone) ==
    IF \E i \in 1..Len(r.phones) : r.phones[i] = phone
    THEN CHOOSE i \in 1..Len(r.phones) :
             r.phones[i] = phone /\ \A j \in 1..(i - 1) : r.phones[j] # phone
    ELSE 0

RemoveAt(s, i) == SubSeq(s, 1, i - 1) \o SubSeq(s, i + 1, Len(s))

remove_phone(r, phone) ==
    LET existing_phone == find_phone(r, phone)
    IN  IF existing_phone # 0
        THEN Effect([r EXCEPT !.phones = RemoveAt(@, existing_phone)],
                    Str(<<"Phone has been removed">>))
        ELSE Effect(r, input_error(Raised("ValueError",
                                          <<"Phone ", phone, " not found">>)))

\* a variant of change_phone that removes the old entry before it validates the
\* new one
change_phone_remove_first(r, phone, new_phone) ==
    LET existing_phone == find_phone(r, phone)
        new_phone_item == PhoneNew(new_phone)
    IN  IF existing_phone = 0
        THEN Effect(r, input_error(Raised("ValueError",
                                          <<"Phone ", phone, " not found">>)))
        ELSE IF new_phone_item.kind = "ValueError"
        THEN Effect([r EXCEPT !.phones = RemoveAt(@, existing_phone)],
                    input_error(new_phone_item))
        ELSE Effect([r EXCEPT !.phones[existing_phone] = new_phone_item.val],
                    Str(<<"Contact changed.">>))

\* a variant of change_phone that removes the old entry and appends the new one
change_phone_append(r, phone, new_phone) ==
    LET existing_phone == find_phone(r, phone)
        new_phone_item == PhoneNew(new_phone)
    IN  IF existing_phone = 0
        THEN Effect(r, input_error(Raised("ValueError",
                                          <<"Phone ", phone, " not found">>)))
        ELSE IF new_phone_item.kind = "ValueError"
        THEN Effect(r, input_error(new_phone_item))
        ELSE Effect([r EXCEPT !.phones = Append(RemoveAt(@, existing_phone),
                                                new_phone_item.val)],
                    Str(<<"Contact changed.">>))

change_phone(r, phone, new_phone) ==
    LET existing_phone == find_phone(r, phone)
        new_phone_item == PhoneNew(new_phone)
    IN  IF existing_phone = 0
        THEN Effect(r, input_error(Raised("ValueError",
                                          <<"Phone ", phone, " not found">>)))
        ELSE IF new_phone_item.kind = "ValueError"
        THEN Effect(r, input_error(new_phone_item))
        ELSE Effect([r EXCEPT !.phones[existing_phone] = new_phone_item.val],
                    Str(<<"Contact changed.">>))

\* a variant of add_birthday without the check for a birthday already set
add_birthday_overwrite(r, birthday) ==
    LET b == BirthdayNew(birthday)
    IN  IF b.kind = "ValueError"
        THEN Effect(r, input_error(b))
        ELSE Effect([r EXCEPT !.birthday = <<b.val>>], Str(<<"Birthday added">>))

add_birthday(r, birthday) ==
    LET b == BirthdayNew(birthday)
    IN  IF r.birthday # <<>>
        THEN Effect(r, input_error(Raised("ValueError",
                                          <<"Birthday already exists">>)))
        ELSE IF b.kind = "ValueError"
        THEN Effect(r, input_error(b))
        ELSE Effect([r EXCEPT !.birthday = <<b.val>>], Str(<<"Birthday added">>))

RECURSIVE JoinPhones(_)
JoinPhones(ps) ==
    IF ps = <<>> THEN <<>>
    ELSE IF Len(ps) = 1 THEN <<ps[1]>>
    ELSE <<ps[1], "; ">> \o JoinPhones(Tail(ps))

\* Record.__str__
RecordStr(r) ==
    <<"Contact name: ", r.name, ", phones: ">> \o JoinPhones(r.phones)
    \o (IF r.birthday # <<>> THEN <<", birthday: ", r.birthday[1]>> ELSE <<>>)

(***************************************************************************)
(* AddressBook (a UserDict): data maps a name to its Record and iterates   *)
(* in insertion order.  args is the list of arguments of a command.        *)
(***************************************************************************)
Outcome(d, ret) == [data |-> d, ret |-> ret]

\* the position of the Record keyed name, 0 when the key is absent
IndexOf(d, name) ==
    IF \E i \in 1..Len(d) : d[i].name = name
    THEN CHOOSE i \in 1..Len(d) : d[i].name = name
    ELSE 0

HasKey(d, name) == IndexOf(d, name) # 0

\* self.data.get(name, f"User {name} not found")
data_get(d, name) ==
    IF HasKey(d, name) THEN RecordRef(name)
    ELSE Str(<<"User ", name, " not found">>)

\* a variant of phone_in that compares by identity: a fresh Phone is never found
phone_in_by_identity(phones, p) == FALSE

\* Phone(phone) in existing_contact_phones: equality of the dataclass, by value
phone_in(phones, p) == \E k \in 1..Len(phones) : phones[k] = p

AddArgsMsg ==
    <<"\"add\" command should contain 2 arguments \"name\" and \"phone number\"">>

add_record(d, args) ==
    IF Len(args) < 2 THEN Outcome(d, input_error(Raised("ValueError", AddArgsMsg)))
    ELSE
    LET name == args[1]
        phone == args[2]
        existing_contact == data_get(d, name)
    IN  IF existing_contact.kind = "str"
        THEN LET new_record == RecordNew(name)
             IN  IF new_record.ret.kind = "ValueError"
                 THEN Outcome(d, input_error(new_record.ret))
                 ELSE LET added == add_phone(new_record.rec[1], phone)
                      IN  IF added.ret.kind = "ValueError"
                          THEN Outcome(d, input_error(added.ret))
                          ELSE Outcome(Append(d, added.rec),
                                       Str(<<"Contact ", name, " added">>))
        ELSE LET i == IndexOf(d, name)
                 probe == PhoneNew(phone)
             IN  IF probe.kind = "ValueError"
                 THEN Outcome(d, input_error(probe))
                 ELSE IF phone_in(d[i].phones, probe.val)
                 THEN Outcome(d, input_error(Raised("ValueError",
                          <<"The phone ", phone, " already exists in contact ", name>>)))
                 ELSE Outcome([d EXCEPT ![i] = add_phone(@, phone).rec],
                              Str(<<"New phone for contact ", name, " has been added">>))

NameMissingMsg == <<"Contact name missing">>

find(d, args) ==
    IF Len(args) = 0 THEN input_error(Raised("ValueError", NameMissingMsg))
    ELSE LET contact == data_get(d, args[1])
         IN  IF contact.kind = "str"
             THEN input_error(Raised("ValueError", contact.val))
             ELSE contact

\* self.data.pop(name, default)
data_pop(d, name) ==
    IF HasKey(d, name) THEN RemoveAt(d, IndexOf(d, name)) ELSE d

\* a variant of delete that fails, like find, on an absent key
delete_strict(d, args) ==
    IF Len(args) = 0
    THEN Outcome(d, input_error(Raised("ValueError", NameMissingMsg)))
    ELSE IF ~HasKey(d, args[1])
    THEN Outcome(d, input_error(Raised("ValueError",
                                       <<"User ", args[1], " not found">>)))
    ELSE Outcome(data_pop(d, args[1]), Str(<<"Contact ", args[1], " deleted">>))

delete(d, args) ==
    IF Len(args) = 0
    THEN Outcome(d, input_error(Raised("ValueError", NameMissingMsg)))
    ELSE Outcome(data_pop(d, args[1]), Str(<<"Contact ", args[1], " deleted">>))

RECURSIVE JoinLines(_)
JoinLines(d) ==
    IF d = <<>> THEN <<>>
    ELSE IF Len(d) = 1 THEN RecordStr(d[1])
    ELSE RecordStr(d[1]) \o <<"\n">> \o JoinLines(Tail(d))

\* AddressBook.__str__
BookStr(d) == IF d # <<>> THEN JoinLines(d) ELSE <<"No contacts available">>

(***************************************************************************)
(* get_upcoming_birthdays                                                  *)
(***************************************************************************)
Skip == [kind |-> "skip", val |-> <<>>]

\* one turn of the loop over the Records
UpcomingFor(user, td) ==
    IF user.birthday = <<>> THEN Skip
    ELSE
    LET next_week == plus_days(td, 7)
        birthday == parse_date(user.birthday[1])[1]
        this_year == replace_year(birthday, td.year)
    IN  IF this_year.kind = "ValueError" THEN this_year
        ELSE
        LET rolled == IF DateLess(this_year.val[1], td)
                      THEN replace_year(this_year.val[1], td.year + 1)
                      ELSE this_year
        IN  IF rolled.kind = "ValueError" THEN rolled
            ELSE
            LET occ == rolled.val[1]
                shifted == IF weekday(occ) \in {5, 6}
                           THEN plus_days(occ, 7 - weekday(occ))
                           ELSE occ
            IN  IF DateLeq(td, occ) /\ DateLeq(occ, next_week)
                THEN [kind |-> "entry",
                      val |-> <<[name |-> user.name,
                                 congratulation_date |-> strftime(shifted)]>>]
                ELSE Skip

RECURSIVE CollectUpcoming(_, _)
CollectUpcoming(d, td) ==
    IF d = <<>> THEN <<>>
    ELSE UpcomingFor(d[1], td).val \o CollectUpcoming(Tail(d), td)

get_upcoming_birthdays(d, td) ==
    IF \E i \in 1..Len(d) : UpcomingFor(d[i], td).kind = "ValueError"
    THEN Raised("ValueError", DayOutOfRangeMsg)
    ELSE ListOf(CollectUpcoming(d, td))

(***************************************************************************)
(* Persistence.  pickle.dump writes, Record after Record, the name, the    *)
(* number of phones, the phones and the birthday slot; pickle.load reads   *)
(* them back in that order.                                                *)
(***************************************************************************)
Absent == [exists |-> FALSE, bytes |-> <<>>]

\* a variant of pickle_dump that leaves the birthday slot empty
RECURSIVE pickle_dump_no_birthday(_)
pickle_dump_no_birthday(d) ==
    IF d = <<>> THEN <<>>
    ELSE <<d[1].name, Len(d[1].phones)>> \o d[1].phones \o <<<<>>>>
         \o pickle_dump_no_birthday(Tail(d))

RECURSIVE pickle_dump(_)
pickle_dump(d) ==
    IF d = <<>> THEN <<>>
    ELSE <<d[1].name, Len(d[1].phones)>> \o d[1].phones \o <<d[1].birthday>>
         \o pickle_dump(Tail(d))

RECURSIVE pickle_load(_)
pickle_load(b) ==
    IF b = <<>> THEN <<>>
    ELSE LET n == b[2]
         IN  <<[name |-> b[1],
                phones |-> SubSeq(b, 3, 2 + n),
                birthday |-> b[3 + n]]>>
             \o pickle_load(SubSeq(b, 4 + n, Len(b)))

save_data(book) == [exists |-> TRUE, bytes |-> pickle_dump(book)]

\* FileNotFoundError gives a fresh AddressBook()
load_data(f) == IF ~f.exists THEN <<>> ELSE pickle_load(f.bytes)

(***************************************************************************)
(* Inputs and bounds.                                                      *)
(***************************************************************************)
MaxLen == 5          \* typed phone strings
MaxRecPhones == 3    \* phones of the Record a caller holds
MaxBookPhones == 2   \* phones per Record of the directory
MaxSteps == 5        \* input lines fed to the command loop

PhoneA == <<"1", "2", "3", "4">>
PhoneB == <<"5", "6", "7", "8">>
PhoneC == <<"+", "1", "2", "3", "4">>
PhoneD == <<"1", "(", "2", ")", "3", "4">>
PhoneShort == <<"1", "2">>

Bd1206 == <<"1", "2", ".", "0", "6", ".", "1", "9", "9", "0">>
Bd1506 == <<"1", "5", ".", "0", "6", ".", "2", "0", "0", "0">>
Bd1606 == <<"1", "6", ".", "0", "6", ".", "1", "9", "8", "5">>
Bd1706 == <<"1", "7", ".", "0", "6", ".", "1", "9", "9", "9">>
Bd1806 == <<"1", "8", ".", "0", "6", ".", "2", "0", "0", "1">>
Bd0906 == <<"0", "9", ".", "0", "6", ".", "1", "9", "9", "5">>
Bd0101 == <<"1", ".", "1", ".", "2", "0", "0", "1">>
Bd2902 == <<"2", "9", ".", "0", "2", ".", "2", "0", "2", "4">>
Bd3002 == <<"3", "0", ".", "0", "2", ".", "2", "0", "2", "4">>

NoCall == [op |-> "none", args |-> <<>>]
Call(op, args) == [op |-> op, args |-> args]

\* the argument lists a caller may pass: none, a name, a name and a value
ArgLists(names, values) ==
    {<<>>} \cup {<<n>> : n \in names} \cup {<<n, v>> : n \in names, v \in values}

(***************************************************************************)
(* Phone construction on typed strings.                                    *)
(***************************************************************************)
Alphabet == {"+", "1", "-", " ", "(", ")", "a", "\t"}

PhoneExamples ==
    {<<"+", "3", "8", "0", "5", "0", "1", "2", "3", "4", "5", "6", "7">>,
     <<"(", "0", "4", "4", ")", "1", "2", "3", "-", "4", "5", "-", "6", "7">>,
     <<"1", "2", "3", " ", "4", "5", "6", "7", " ", "8", "9", "0", "1", "2">>,
     <<"a", "b", "c">>,
     PhoneShort,
     <<"+", "1", "2", "3", "4", "5", "6", "7", "8", "9", "0", "1", "2", "3", "4", "5", "6">>,
     <<"(", "0", "4", "4", ")", "1", "2", "3", "-", "4", "5", "6", "7">>,
     <<"1", "(", "0", "4", "4", ")", "1", "2", "3", "-", "4", "5", "6", "7">>}

InitPhone ==
    /\ text \in {<<>>} \cup PhoneExamples
    /\ out = NoOutput
    /\ data = <<>> /\ file = Absent /\ status = "stopped" /\ steps = 0
    /\ rec = <<>> /\ call = NoCall /\ today = Date(2024, 6, 10)

TypeChar ==
    /\ out.kind = "none"
    /\ Len(text) < MaxLen
    /\ \E c \in Alphabet : text' = Append(text, c)
    /\ UNCHANGED <<data, file, status, steps, out, rec, call, today>>

ConstructPhone ==
    /\ out.kind = "none"
    /\ out' = PhoneNew(text)
    /\ UNCHANGED <<data, file, status, steps, rec, call, text, today>>

NextPhone == TypeChar \/ ConstructPhone
SpecPhone == InitPhone /\ [][NextPhone]_vars

(***************************************************************************)
(* A caller holding one Record and calling its methods.                    *)
(***************************************************************************)
RecPhoneInputs == {PhoneA, PhoneB, PhoneC, PhoneD, PhoneShort}
RecBirthdayInputs == {Bd1206, Bd2902, Bd3002}

InitRecord ==
    /\ rec = RecordNew("Ann").rec[1]
    /\ out = NoOutput /\ call = NoCall
    /\ data = <<>> /\ file = Absent /\ status = "stopped" /\ steps = 0
    /\ text = <<>> /\ today = Date(2024, 6, 10)

RecAddPhone ==
    \E p \in RecPhoneInputs :
        \E eff \in {add_phone(rec, p)} :
            /\ Len(eff.rec.phones) <= MaxRecPhones
            /\ rec' = eff.rec
            /\ out' = eff.ret
            /\ call' = Call("add_phone", <<p>>)
            /\ UNCHANGED <<data, file, status, steps, text, today>>

RecRemovePhone ==
    \E p \in RecPhoneInputs :
        \E eff \in {remove_phone(rec, p)} :
            /\ rec' = eff.rec
            /\ out' = eff.ret
            /\ call' = Call("remove_phone", <<p>>)
            /\ UNCHANGED <<data, file, status, steps, text, today>>

RecChangePhone ==
    \E p \in RecPhoneInputs, q \in RecPhoneInputs :
        \E eff \in {change_phone(rec, p, q)} :
            /\ rec' = eff.rec
            /\ out' = eff.ret
            /\ call' = Call("change_phone", <<p, q>>)
            /\ UNCHANGED <<data, file, status, steps, text, today>>

RecAddBirthday ==
    \E b \in RecBirthdayInputs :
        \E eff \in {add_birthday(rec, b)} :
            /\ rec' = eff.rec
            /\ out' = eff.ret
            /\ call' = Call("add_birthday", <<b>>)
            /\ UNCHANGED <<data, file, status, steps, text, today>>

NextRecord == RecAddPhone \/ RecRemovePhone \/ RecChangePhone \/ RecAddBirthday
SpecRecord == InitRecord /\ [][NextRecord]_vars

(***************************************************************************)
(* A caller of the AddressBook: add_record, find, delete, and the methods  *)
(* of a Record that find returned.                                         *)
(***************************************************************************)
PhonesWithin(d, cap) == \A i \in 1..Len(d) : Len(d[i].phones) <= cap

AddRecord(names, phones) ==
    \E args \in ArgLists(names, phones) :
        \E o \in {add_record(data, args)} :
            /\ PhonesWithin(o.data, MaxBookPhones)
            /\ data' = o.data
            /\ out' = o.ret
            /\ UNCHANGED <<file, status, steps, rec, call, text, today>>

Find(names) ==
    \E args \in ArgLists(names, {}) :
        /\ out' = find(data, args)
        /\ UNCHANGED <<data, file, status, steps, rec, call, text, today>>

Delete(names) ==
    \E args \in ArgLists(names, {}) :
        \E o \in {delete(data, args)} :
            /\ data' = o.data
            /\ out' = o.ret
            /\ UNCHANGED <<file, status, steps, rec, call, text, today>>

\* find(name) gave a Record; one of its methods is called
RemovePhone(names, phones) ==
    \E n \in names, p \in phones :
        /\ find(data, <<n>>).kind = "Record"
        /\ \E i \in {IndexOf(data, n)} :
               \E eff \in {remove_phone(data[i], p)} :
                   /\ data' = [data EXCEPT ![i] = eff.rec]
                   /\ out' = eff.ret
        /\ UNCHANGED <<file, status, steps, rec, call, text, today>>

ChangePhone(names, phones) ==
    \E n \in names, p \in phones, q \in phones :
        /\ find(data, <<n>>).kind = "Record"
        /\ \E i \in {IndexOf(data, n)} :
               \E eff \in {change_phone(data[i], p, q)} :
                   /\ data' = [data EXCEPT ![i] = eff.rec]
                   /\ out' = eff.ret
        /\ UNCHANGED <<file, status, steps, rec, call, text, today>>

AddBirthday(names, birthdays) ==
    \E n \in names, b \in birthdays :
        /\ find(data, <<n>>).kind = "Record"
        /\ \E i \in {IndexOf(data, n)} :
               \E eff \in {add_birthday(data[i], b)} :
                   /\ data' = [data EXCEPT ![i] = eff.rec]
                   /\ out' = eff.ret
        /\ UNCHANGED <<file, status, steps, rec, call, text, today>>

BookNames == {"Ann", "Bo", "A"}
BookPhones == {PhoneA, PhoneB, PhoneShort}
BookBirthdays == {Bd1206, Bd3002}

InitBook ==
    /\ data = <<>>
    /\ out = NoOutput /\ call = NoCall
    /\ file = Absent /\ status = "stopped" /\ steps = 0
    /\ rec = <<>> /\ text = <<>> /\ today = Date(2024, 6, 10)

NextBook ==
    \/ AddRecord(BookNames, BookPhones)
    \/ Find(BookNames)
    \/ Delete(BookNames)
    \/ RemovePhone(BookNames, BookPhones)
    \/ ChangePhone(BookNames, BookPhones)
    \/ AddBirthday(BookNames, BookBirthdays)
SpecBook == InitBook /\ [][NextBook]_vars

(***************************************************************************)
(* The upcoming-birthdays query on a directory built through add_record    *)
(* and add_birthday, on a given day.                                       *)
(***************************************************************************)
BdNames == {"Ann", "Bo"}
BdBirthdays ==
    {Bd1206, Bd1506, Bd1606, Bd1706, Bd1806, Bd0906, Bd0101, Bd2902, Bd3002}
Todays ==
    {Date(2024, 6, 10), Date(2024, 6, 14), Date(2024, 12, 27),
     Date(2024, 2, 25), Date(2024, 3, 1), Date(2025, 2, 25), Date(2025, 6, 10)}

InitBirthdays ==
    /\ today \in Todays
    /\ data = <<>>
    /\ out = NoOutput /\ call = NoCall
    /\ file = Absent /\ status = "stopped" /\ steps = 0
    /\ rec = <<>> /\ text = <<>>

QueryBirthdays ==
    /\ out' = get_upcoming_birthdays(data, today)
    /\ UNCHANGED <<data, file, status, steps, rec, call, text, today>>

NextBirthdays ==
    \/ AddRecord(BdNames, {PhoneA})
    \/ AddBirthday(BdNames, BdBirthdays)
    \/ QueryBirthdays
SpecBirthdays == InitBirthdays /\ [][NextBirthdays]_vars

(***************************************************************************)
(* main(): the command loop.  An input line is the list of its tokens.     *)
(***************************************************************************)
NoArgumentsMsg == <<"There are no arguments passed">>

\* str.lower() on the spellings of a command the inputs use
Lower(tok) ==
    CASE tok = "EXIT" -> "exit"
      [] tok = "Close" -> "close"
      [] tok = "Add" -> "add"
      [] OTHER -> tok

\* parse_input: the command and the arguments, or ValueError on an empty line
parse_input(user_input) ==
    IF user_input = <<>> THEN Raised("ValueError", NoArgumentsMsg)
    ELSE [kind |-> "tuple", val |-> <<Lower(user_input[1])>> \o Tail(user_input)]

\* except ValueError as e: print(f"Error: {str(e)}")
print_error(res) ==
    IF res.kind = "ValueError" THEN Str(<<ErrorPrefix>> \o res.val) ELSE res

\* an attribute looked up on the str that find returned
AttributeError(attr) ==
    Raised("AttributeError", <<"'str' object has no attribute '", attr, "'">>)

ChangeArgsMsg ==
    <<"'change' command should contain 3 arguments: name, old_phone, new_phone">>
AddBirthdayArgsMsg ==
    <<"\"add-birthday\" command should contain 2 arguments \"name\" and \"birthday\" in format DD.MM.YYYY">>

LoopNames == {"Ann", "Bo"}
LoopPhones == {PhoneA, PhoneB, PhoneShort}
LoopBirthdays == {Bd2902, Bd3002}
LoopTodays == {Date(2024, 2, 25), Date(2025, 6, 10)}

\* the lines typed: a command word followed by 0 to 3 arguments
LinesOf(words) ==
    {<<w>> : w \in words}
    \cup {<<w, n>> : w \in words, n \in LoopNames \cup {"A"}}

InitLoop ==
    /\ status = "stopped"
    /\ file = Absent
    /\ data = <<>>
    /\ steps = 0
    /\ out = NoOutput
    /\ rec = <<>> /\ call = NoCall /\ text = <<>> /\ today = Date(2024, 6, 10)

\* book = AddressBook.load_data(); print("Welcome to the assistant bot!")
Start ==
    /\ status # "running"
    /\ data' = load_data(file)
    /\ status' = "running"
    /\ out' = Str(<<"Welcome to the assistant bot!">>)
    /\ UNCHANGED <<file, steps, rec, call, text, today>>

\* input("Enter a command: ") gave a line
Reads(line) ==
    /\ status = "running"
    /\ steps < MaxSteps
    /\ steps' = steps + 1

Command(line) == parse_input(line).val[1]
Args(line) == Tail(parse_input(line).val)

CmdEmptyLine ==
    /\ Reads(<<>>)
    /\ out' = print_error(parse_input(<<>>))
    /\ UNCHANGED <<data, file, status, rec, call, text, today>>

CmdExit ==
    \E line \in LinesOf({"close", "exit", "EXIT"}) :
        /\ Reads(line)
        /\ Command(line) \in {"close", "exit"}
        /\ out' = Str(<<"Good bye!">>)
        /\ file' = save_data(data)
        /\ status' = "done"
        /\ UNCHANGED <<data, rec, call, text, today>>

CmdHello ==
    \E line \in LinesOf({"hello"}) :
        /\ Reads(line)
        /\ Command(line) = "hello"
        /\ out' = Str(<<"How can I help you?">>)
        /\ UNCHANGED <<data, file, status, rec, call, text, today>>

CmdAdd ==
    \E w \in {"add", "Add"}, args \in ArgLists(LoopNames \cup {"A"}, LoopPhones) :
        /\ Reads(<<w>> \o args)
        /\ Command(<<w>> \o args) = "add"
        /\ \E o \in {add_record(data, Args(<<w>> \o args))} :
               /\ data' = o.data
               /\ out' = print_error(o.ret)
        /\ UNCHANGED <<file, status, rec, call, text, today>>

CmdAll ==
    \E line \in LinesOf({"all"}) :
        /\ Reads(line)
        /\ Command(line) = "all"
        /\ out' = Str(BookStr(data))
        /\ UNCHANGED <<data, file, status, rec, call, text, today>>

\* print(book.find(args)): the error text, or the Record's text
CmdPhone ==
    \E line \in LinesOf({"phone"}) :
        /\ Reads(line)
        /\ Command(line) = "phone"
        /\ \E contact \in {find(data, Args(line))} :
               out' = IF contact.kind = "Record"
                      THEN Str(RecordStr(data[IndexOf(data, contact.val[1])]))
                      ELSE contact
        /\ UNCHANGED <<data, file, status, rec, call, text, today>>

CmdDelete ==
    \E line \in LinesOf({"delete"}) :
        /\ Reads(line)
        /\ Command(line) = "delete"
        /\ \E o \in {delete(data, Args(line))} :
               /\ data' = o.data
               /\ out' = o.ret
        /\ UNCHANGED <<file, status, rec, call, text, today>>

CmdChange ==
    \E args \in ArgLists(LoopNames, LoopPhones)
               \cup {<<n, p, q>> : n \in LoopNames, p \in LoopPhones, q \in LoopPhones} :
        /\ Reads(<<"change">> \o args)
        /\ Command(<<"change">> \o args) = "change"
        /\ IF Len(args) < 3
           THEN /\ out' = print_error(Raised("ValueError", ChangeArgsMsg))
                /\ UNCHANGED <<data, status>>
           ELSE \E contact \in {find(data, args)} :
                    IF contact.kind = "Record"
                    THEN \E i \in {IndexOf(data, contact.val[1])} :
                         \E eff \in {change_phone(data[i], args[2], args[3])} :
                             /\ data' = [data EXCEPT ![i] = eff.rec]
                             /\ out' = eff.ret
                             /\ UNCHANGED status
                    ELSE /\ out' = AttributeError("change_phone")
                         /\ status' = "crashed"
                         /\ UNCHANGED data
        /\ UNCHANGED <<file, rec, call, text, today>>

CmdAddBirthday ==
    \E args \in ArgLists(LoopNames, LoopBirthdays) :
        /\ Reads(<<"add-birthday">> \o args)
        /\ Command(<<"add-birthday">> \o args) = "add-birthday"
        /\ IF Len(args) < 2
           THEN /\ out' = print_error(Raised("ValueError", AddBirthdayArgsMsg))
                /\ UNCHANGED <<data, status>>
           ELSE \E contact \in {find(data, args)} :
                    IF contact.kind = "Record"
                    THEN \E i \in {IndexOf(data, contact.val[1])} :
                         \E eff \in {add_birthday(data[i], args[2])} :
                             /\ data' = [data EXCEPT ![i] = eff.rec]
                             /\ out' = eff.ret
                             /\ UNCHANGED status
                    ELSE /\ out' = AttributeError("add_birthday")
                         /\ status' = "crashed"
                         /\ UNCHANGED data
        /\ UNCHANGED <<file, rec, call, text, today>>

CmdShowBirthday ==
    \E line \in LinesOf({"show-birthday"}) :
        /\ Reads(line)
        /\ Command(line) = "show-birthday"
        /\ \E contact \in {find(data, Args(line))} :
               IF contact.kind = "Record"
               THEN /\ out' = LET r == data[IndexOf(data, contact.val[1])]
                              IN  IF r.birthday # <<>>
                                  THEN Str(<<"Birthday: ", r.birthday[1]>>)
                                  ELSE Str(<<"Birthday for contact ", Args(line)[1],
                                             " hasn't been set">>)
                    /\ UNCHANGED status
               ELSE /\ out' = AttributeError("birthday")
                    /\ status' = "crashed"
        /\ UNCHANGED <<data, file, rec, call, text, today>>

\* print(book.get_upcoming_birthdays()), on the day the clock shows
CmdBirthdays ==
    \E line \in LinesOf({"birthdays"}), td \in LoopTodays :
        /\ Reads(line)
        /\ Command(line) = "birthdays"
        /\ out' = print_error(get_upcoming_birthdays(data, td))
        /\ UNCHANGED <<data, file, status, rec, call, text, today>>

CmdInvalid ==
    \E line \in LinesOf({"remove", "help"}) :
        /\ Reads(line)
        /\ Command(line) \notin {"close", "exit", "hello", "add", "all", "phone", "delete",
                                 "change", "add-birthday", "show-birthday", "birthdays"}
        /\ out' = Str(<<"Invalid command.">>)
        /\ UNCHANGED <<data, file, status, rec, call, text, today>>

Next ==
    \/ Start
    \/ CmdEmptyLine
    \/ CmdExit
    \/ CmdHello
    \/ CmdAdd
    \/ CmdAll
    \/ CmdPhone
    \/ CmdDelete
    \/ CmdChange
    \/ CmdAddBirthday
    \/ CmdShowBirthday
    \/ CmdBirthdays
    \/ CmdInvalid
Spec == InitLoop /\ [][Next]_vars

(***************************************************************************)
(* Properties.                                                             *)
(***************************************************************************)

\* C1: no failing operation ends the command loop: every failure is printed
\* as "Error: <message>" and the process ends only on close/exit.
C1_LoopSurvivesFailures ==
    /\ status \in {"stopped", "running", "done"}
    /\ out.kind \in {"none", "str", "list"}
    /\ status = "done" => out = Str(<<"Good bye!">>)

\* The first position of value p in list ps.
FirstIndex(ps, p) == CHOOSE i \in 1..Len(ps) : ps[i] = p /\ \A j \in 1..(i - 1) : ps[j] # p
Contains(ps, p) == \E i \in 1..Len(ps) : ps[i] = p
AlreadyExists(o, n, p) ==
    o.ret = Str(<<ErrorPrefix, "The phone ", p, " already exists in contact ", n>>)

\* C2 as stated: add_record(name, phone) on an existing name fails with
\* "already exists" and changes nothing when the phone is in the list, and
\* otherwise appends the phone at the end and touches nothing else.
C2_AddToExistingAsStated ==
    \A n \in BookNames, p \in BookPhones :
        HasKey(data, n) =>
            LET i == IndexOf(data, n)
                o == add_record(data, <<n, p>>)
            IN  IF Contains(data[i].phones, p)
                THEN AlreadyExists(o, n, p) /\ o.data = data
                ELSE o.data = [data EXCEPT ![i].phones = Append(@, p)]

\* C2 amended: as stated when the phone is a valid phone number; an invalid
\* phone fails with the phone validation error and changes nothing.
C2_AddToExisting ==
    \A n \in BookNames, p \in BookPhones :
        HasKey(data, n) =>
            LET i == IndexOf(data, n)
                o == add_record(data, <<n, p>>)
            IN  IF Contains(data[i].phones, p)
                THEN AlreadyExists(o, n, p) /\ o.data = data
                ELSE IF is_valid_phone(p)
                THEN /\ o.data = [data EXCEPT ![i].phones = Append(@, p)]
                     /\ ~IsErrorText(o.ret)
                ELSE /\ o.ret = Str(<<ErrorPrefix>> \o validate_phone_error_msg)
                     /\ o.data = data

C2_Witness ==
    /\ HasKey(data, "Ann") /\ HasKey(data, "Bo")
    /\ data[IndexOf(data, "Ann")].phones = <<PhoneB, PhoneA>>
    /\ out = Str(<<"New phone for contact ", "Ann", " has been added">>)

\* C3: change_phone(old, new) with old in the list and new valid replaces the
\* entry holding old where it stands: same length, new at that index, every
\* other entry as before.
C3_ChangeKeepsPosition ==
    [][(/\ call'.op = "change_phone"
        /\ Contains(rec.phones, call'.args[1])
        /\ is_valid_phone(call'.args[2]))
       => LET i == FirstIndex(rec.phones, call'.args[1])
          IN  /\ Len(rec'.phones) = Len(rec.phones)
              /\ rec'.phones[i] = call'.args[2]
              /\ \A j \in 1..Len(rec.phones) : j # i => rec'.phones[j] = rec.phones[j]
              /\ out' = Str(<<"Contact changed.">>)]_vars

C3_Witness ==
    /\ call = Call("change_phone", <<PhoneB, PhoneD>>)
    /\ rec.phones = <<PhoneA, PhoneD, PhoneC>>
    /\ out = Str(<<"Contact changed.">>)

\* C4: once a Record has a birthday, every later add_birthday on it fails and
\* no phone or birthday operation changes the birthday.
C4_BirthdaySetOnce ==
    [][rec.birthday # <<>>
       => /\ rec'.birthday = rec.birthday
          /\ call'.op = "add_birthday" => IsErrorText(out')]_vars

C4_Witness ==
    /\ rec.birthday = <<Bd1206>>
    /\ call = Call("add_birthday", <<Bd2902>>)
    /\ out = Str(<<ErrorPrefix, "Birthday already exists">>)
    /\ Len(rec.phones) > 0

\* The days of the window [td, td + 7] on which a birthday's day and month fall.
WindowDays(b, td) ==
    {k \in 0..7 : plus_days(td, k).month = b.month /\ plus_days(td, k).day = b.day}

\* The date to congratulate on for an occurrence: itself from Monday to
\* Friday, the Monday after it on a Saturday or Sunday.
CongratulationDate(occ) ==
    IF weekday(occ) \in {5, 6}
    THEN plus_days(occ, CHOOSE j \in 1..2 : weekday(plus_days(occ, j)) = 0)
    ELSE occ

\* The entries of a returned list are those of the window, with their dates.
UpcomingAsClaimed(entries, d, td) ==
    \A i \in 1..Len(d) :
        d[i].birthday # <<>> =>
            LET b == parse_date(d[i].birthday[1])[1]
                mine == {k \in 1..Len(entries) : entries[k].name = d[i].name}
            IN  /\ (mine # {}) <=> (WindowDays(b, td) # {})
                /\ \A k \in mine :
                       \E w \in WindowDays(b, td) :
                           entries[k].congratulation_date
                               = strftime(CongratulationDate(plus_days(td, w)))

\* C5: get_upcoming_birthdays, for every day and every Record with a
\* birthday, lists the Record exactly when the first occurrence of its day
\* and month on or after today lies within 7 days, dated on that occurrence
\* or, on a weekend, the Monday after.
C5_UpcomingWindow ==
    out.kind \in {"list", "ValueError"} =>
        /\ out.kind = "list"
        /\ UpcomingAsClaimed(out.val, data, today)

\* What holds of the code: a query that returns, returns the claimed list.
UpcomingWhenReturned ==
    out.kind = "list" => UpcomingAsClaimed(out.val, data, today)

\* C10: get_upcoming_birthdays returns a list for every directory built
\* through the operations and every current date; it never fails.
C10_QueryTotal == out.kind # "ValueError"

\* The grammar of the claim, as the set of positions each piece can end at:
\* optional "+", optional country code of 1 to 3 digits, area code of 1 to 4
\* digits with or without parentheses, groups of up to 4 and up to 9 digits,
\* "-", "." or one space between groups.
GrammarSeps == {"-", ".", " "}
EndOpt(s, P, C) == P \cup {p + 1 : p \in {q \in P : q < Len(s) /\ s[q + 1] \in C}}
EndDigits(s, P, lo, hi) ==
    UNION {{p + n : n \in {m \in lo..hi : DigitsAt(s, p, m)}} : p \in P}
EndLit(s, P, c) == {p + 1 : p \in {q \in P : q < Len(s) /\ s[q + 1] = c}}
EndArea(s, P) ==
    EndLit(s, EndDigits(s, EndLit(s, P, "("), 1, 4), ")") \cup EndDigits(s, P, 1, 4)
InGrammar(s) ==
    LET p1 == EndOpt(s, {0}, {"+"})
        p2 == p1 \cup EndDigits(s, p1, 1, 3)
        p3 == EndOpt(s, p2, GrammarSeps)
        p4 == EndArea(s, p3)
        p5 == EndOpt(s, p4, GrammarSeps)
        p6 == EndDigits(s, p5, 1, 4)
        p7 == EndOpt(s, p6, GrammarSeps)
        p8 == EndDigits(s, p7, 1, 9)
    IN  Len(s) \in p8

ClaimedValid ==
    {<<"+", "3", "8", "0", "5", "0", "1", "2", "3", "4", "5", "6", "7">>,
     <<"(", "0", "4", "4", ")", "1", "2", "3", "-", "4", "5", "-", "6", "7">>,
     <<"1", "2", "3", " ", "4", "5", "6", "7", " ", "8", "9", "0", "1", "2">>}
ClaimedInvalid ==
    {<<"a", "b", "c">>, PhoneShort,
     <<"+", "1", "2", "3", "4", "5", "6", "7", "8", "9", "0", "1", "2", "3", "4", "5", "6">>}

\* C6: Phone construction succeeds exactly for the strings of the grammar,
\* over the entire string; it succeeds for the three examples given as valid
\* and fails for the three given as invalid.
C6_PhoneGrammar ==
    out.kind \in {"Phone", "ValueError"} =>
        /\ (out.kind = "Phone") <=> InGrammar(text)
        /\ text \in ClaimedValid => out.kind = "Phone"
        /\ text \in ClaimedInvalid => out.kind = "ValueError"

\* C7: for a name that is no key, find fails with "User <name> not found"
\* and delete succeeds and changes nothing; for a key, delete removes that
\* key alone; a second delete of the same name changes nothing.
C7_FindDeleteAsymmetry ==
    \A n \in BookNames :
        LET o == delete(data, <<n>>)
        IN  /\ o.ret = Str(<<"Contact ", n, " deleted">>)
            /\ o.data = SelectSeq(data, LAMBDA r : r.name # n)
            /\ ~HasKey(data, n) =>
                   /\ find(data, <<n>>) = Str(<<ErrorPrefix, "User ", n, " not found">>)
                   /\ o.data = data
            /\ HasKey(data, n) => find(data, <<n>>).kind = "Record"
            /\ delete(o.data, <<n>>) = o

C7_Witness ==
    /\ out = Str(<<"Contact ", "Bo", " deleted">>)
    /\ ~HasKey(data, "Bo")
    /\ HasKey(data, "Ann")
    /\ data[IndexOf(data, "Ann")].birthday # <<>>

\* C8: what the loop saves on close/exit loads back as the directory it was;
\* the file changes on close/exit only; a run started after such an exit
\* begins with that directory, and a run started without a file with none.
C8_PersistenceRoundTrip ==
    [][/\ file' # file => status = "running" /\ status' = "done"
       /\ (status = "running" /\ status' = "done")
              => file'.exists /\ load_data(file') = data
       /\ (status = "done" /\ status' = "running") => data' = data
       /\ (status # "running" /\ status' = "running" /\ ~file.exists)
              => data' = <<>>]_vars

C8_Witness ==
    /\ status = "running"
    /\ out = Str(<<"Welcome to the assistant bot!">>)
    /\ file.exists
    /\ Len(data) = 1
    /\ data[1].phones = <<PhoneB, PhoneA>>
    /\ data[1].birthday = <<Bd2902>>

\* C9: an operation that ends in a validation error leaves the whole
\* directory as it was.
C9_ErrorsChangeNothing == [][IsErrorText(out') => data' = data]_vars

C9_Witness ==
    /\ out = Str(<<ErrorPrefix>> \o validate_phone_error_msg)
    /\ Len(data) = 1
    /\ data[1].name = "Ann"
    /\ data[1].phones = <<PhoneA, PhoneB>>
    /\ data[1].birthday # <<>>

====
